---- MODULE Spec2Model ----
(***************************************************************************)
(* A model of aicommit: the configuration store and interactive menu of    *)
(* config.ts and the generation pipeline and reply normalizer of run.ts.   *)
(*                                                                         *)
(* Strings the code only stores and compares are TLA+ strings.  Strings    *)
(* whose characters the code inspects (model replies, template bodies,     *)
(* diffs) are sequences of one-character strings.                          *)
(***************************************************************************)
EXTENDS Integers, Sequences, FiniteSets, TLC

VARIABLES
    configFile,      \* the file at configPath: absent, malformed, or a JSON object
    files,           \* the template files on disk: path -> body
    env,             \* process.env: OPENAI_API_KEY, OPENAI_API_BASE, OPENAI_MODEL
    DEFAULT_CONFIG,  \* the module-level object of config.ts (shared, mutable)
    op,              \* the operation that ran last, with its inputs
    outcome,         \* how it ended
    ret,             \* the Config it returned (load, prune)
    given,           \* every (field, value) pair passed in an update list so far
    nops,            \* number of operations run so far
    \* one call of run(options, templateName) of run.ts
    variant,         \* which of the two run functions of run.ts is running
    verbose,         \* options.verbose
    templateName,    \* the optional template name ("" when not given)
    pc,              \* where the run is
    config,          \* run's const config
    templateFilePath,
    template,        \* run's const template: the body read from the template file
    diff,            \* the staged diff
    rendered_template,
    response,        \* response.choices[0].message: content, reasoning_content
    stdout,          \* what was written to the primary output stream, in order
    stderr,          \* what was written to the diagnostic stream, in order
    condition,       \* the fatal condition the run ended with, "ok", or "none" so far
    exitCode,        \* "0", "1", "threw" (the promise rejected), or "running"
    modelCalls,      \* calls of oai.chat.completions.create so far
    \* normalizeCommitSuggestions applied to a reply, and again to its output
    raw, suggestions, renormalized, npc,
    \* the flow of showConfigUI
    uipc,            \* "closed", or how the last pass of the menu ended
    shown,           \* times the main menu was displayed
    printed,         \* the messages the catch of showConfigUI printed, in order
    \* one template-editing workflow: the template branch of showConfigUI and editFile
    epc,             \* where the workflow is
    edit,            \* the branch taken: its kind, template name, path, config.templates
    chosenEditor,    \* the editor chosen ("" so far)
    exitStatus,      \* how the editor process exited ("none" so far)
    callbacks,       \* calls of onExit so far
    callback,        \* "none", "running", "returned" or "threw"
    promise,         \* the promise editFile awaits: "none", "pending", "resolved", "rejected"
    flow,            \* showConfigUI around editFile: "awaiting", "continued", "caught"
    \* two calls of setConfigs in flight
    shared,          \* whether the two calls run in one process
    defaults,        \* DEFAULT_CONFIG of each process
    setters,         \* each call: its position, update list, const config, written text
    lastWriter       \* the call whose Bun.write finished last (0: none)

cfgVars == <<configFile, files, env, DEFAULT_CONFIG, op, outcome, ret, given, nops>>
runVars == <<variant, verbose, templateName, pc, config, templateFilePath, template, diff,
             rendered_template, response, stdout, stderr, condition, exitCode, modelCalls>>
normVars == <<raw, suggestions, renormalized, npc>>
uiVars == <<uipc, shown, printed>>
editVars == <<epc, edit, chosenEditor, exitStatus, callbacks, callback, promise, flow>>
setVars == <<shared, defaults, setters, lastWriter>>
extVars == <<editVars, setVars>>
vars == <<cfgVars, runVars, normVars, uiVars, extVars>>

(***************************************************************************)
(* Bounds                                                                  *)
(***************************************************************************)
MaxOps == 2          \* operations per behaviour of the configuration store
MaxUpdates == 2      \* length of an update list passed to setConfigs

(***************************************************************************)
(* config.ts: values                                                       *)
(***************************************************************************)
\* Object.keys(DEFAULT_CONFIG)
ConfigKeys == {"OPENAI_API_KEY", "OPENAI_API_BASE", "model", "templates"}
ScalarKeys == {"OPENAI_API_KEY", "OPENAI_API_BASE", "model"}

\* path.join(os.homedir(), ".bunnai-template")
defaultTemplatePath == <<".bunnai-template">>

\* path.join(os.homedir(), `.bunnai-template-${newTemplateName}`)
newTemplatePath(name) == <<".bunnai-template-", name>>

\* the value p.text resolves to when the operator cancels the prompt (a symbol)
CancelSymbol == "Symbol(clack:cancel)"

NoTemplates == [n \in {} |-> defaultTemplatePath]

\* the literal DEFAULT_CONFIG is initialised with
DEFAULT_CONFIG_literal ==
    [OPENAI_API_KEY  |-> "",
     OPENAI_API_BASE |-> "https://api.openai.com/v1",
     model           |-> "gpt-4-0125-preview",
     templates       |-> [n \in {"default"} |-> defaultTemplatePath],
     extra           |-> {}]

\* a Config with every field blank: what the fields of a record that is not there hold
BlankConfig ==
    [OPENAI_API_KEY |-> "", OPENAI_API_BASE |-> "", model |-> "",
     templates |-> NoTemplates, extra |-> {}]

AbsentFile    == [kind |-> "absent",    keys |-> {}, vals |-> BlankConfig]
MalformedFile == [kind |-> "malformed", keys |-> {}, vals |-> BlankConfig]

\* a parsed JSON object: the known keys it has, their values, and its unknown keys
JsonFile(keys, vals) ==
    [kind |-> "json", keys |-> keys,
     vals |-> [OPENAI_API_KEY  |-> IF "OPENAI_API_KEY" \in keys THEN vals.OPENAI_API_KEY ELSE "",
               OPENAI_API_BASE |-> IF "OPENAI_API_BASE" \in keys THEN vals.OPENAI_API_BASE ELSE "",
               model           |-> IF "model" \in keys THEN vals.model ELSE "",
               templates       |-> IF "templates" \in keys THEN vals.templates ELSE NoTemplates,
               extra           |-> vals.extra]]

\* the body written to a new template file (import { template } from "./template")
boilerplate == <<"S", ":", "{", "{", "d", "i", "f", "f", "}", "}">>
\* a body the operator saved from the editor
editedBody == <<"E", "{", "{", "d", "i", "f", "f", "}", "}">>

Restrict(f, S) == [n \in S |-> f[n]]

(***************************************************************************)
(* config.ts: readConfigFile                                               *)
(***************************************************************************)
\* { ...DEFAULT_CONFIG, ...fileConfig }
Spread(D, fc) ==
    [OPENAI_API_KEY  |-> IF "OPENAI_API_KEY" \in fc.keys THEN fc.vals.OPENAI_API_KEY ELSE D.OPENAI_API_KEY,
     OPENAI_API_BASE |-> IF "OPENAI_API_BASE" \in fc.keys THEN fc.vals.OPENAI_API_BASE ELSE D.OPENAI_API_BASE,
     model           |-> IF "model" \in fc.keys THEN fc.vals.model ELSE D.model,
     templates       |-> IF "templates" \in fc.keys THEN fc.vals.templates ELSE D.templates,
     extra           |-> D.extra \cup fc.vals.extra]

\* the three `if (process.env.X) config.X = process.env.X` of readConfigFile
EnvOverride(c, e) ==
    [c EXCEPT !.OPENAI_API_KEY  = IF e.OPENAI_API_KEY # "" THEN e.OPENAI_API_KEY ELSE @,
              !.OPENAI_API_BASE = IF e.OPENAI_API_BASE # "" THEN e.OPENAI_API_BASE ELSE @,
              !.model           = IF e.OPENAI_MODEL # "" THEN e.OPENAI_MODEL ELSE @]

\* readConfigFile.  The result says whether it threw, the Config it returned,
\* what of DEFAULT_CONFIG the returned object shares ("whole": it IS
\* DEFAULT_CONFIG; "templates": its templates object is DEFAULT_CONFIG.templates;
\* "none"), and DEFAULT_CONFIG as the call left it.
readConfigFile(file, D, e) ==
    CASE file.kind = "absent" ->
           [threw |-> FALSE, config |-> EnvOverride(D, e), alias |-> "whole",
            D |-> EnvOverride(D, e)]
      [] file.kind = "malformed" ->
           [threw |-> TRUE, config |-> BlankConfig, alias |-> "none", D |-> D]
      [] file.kind = "json" ->
           [threw |-> FALSE, config |-> EnvOverride(Spread(D, file), e),
            alias |-> IF "templates" \in file.keys THEN "none" ELSE "templates",
            D |-> D]

(***************************************************************************)
(* config.ts: cleanUpTemplates                                             *)
(***************************************************************************)
\* the entries of a templates map whose file exists
existingTemplates(templates, fs) ==
    Restrict(templates, {n \in DOMAIN templates : templates[n] \in DOMAIN fs})

\* cleanUpTemplates that deletes nothing
cleanUpTemplates_keepsAll(r, fs) == r

\* cleanUpTemplates applied to the result r of readConfigFile: the entries are
\* deleted from the templates object itself, which DEFAULT_CONFIG may share
cleanUpTemplates(r, fs) ==
    [r EXCEPT !.config.templates = existingTemplates(@, fs),
              !.D.templates = IF r.alias = "none" THEN @ ELSE existingTemplates(@, fs)]

(***************************************************************************)
(* config.ts: validateKeys, setConfigs                                     *)
(***************************************************************************)
\* an update [key, value]: str is the value of a scalar key, tpl of "templates"
Update(k, s, t) == [key |-> k, str |-> s, tpl |-> t]

\* validateKeys that looks at the first key only
validateKeys_firstOnly(keys) == keys = << >> \/ keys[1] \in ConfigKeys

\* validateKeys: TRUE when it returns, FALSE when it throws
validateKeys(keys) == \A i \in 1..Len(keys) : keys[i] \in ConfigKeys

\* config[key] = value
assign(c, u) ==
    CASE u.key = "OPENAI_API_KEY"  -> [c EXCEPT !.OPENAI_API_KEY = u.str]
      [] u.key = "OPENAI_API_BASE" -> [c EXCEPT !.OPENAI_API_BASE = u.str]
      [] u.key = "model"           -> [c EXCEPT !.model = u.str]
      [] u.key = "templates"       -> [c EXCEPT !.templates = u.tpl]
      [] OTHER                     -> [c EXCEPT !.extra = @ \cup {u.key}]

RECURSIVE assignAll(_, _)
\* for (const [key, value] of keyValues) config[key] = value
assignAll(c, kvs) ==
    IF kvs = << >> THEN c ELSE assignAll(assign(c, Head(kvs)), Tail(kvs))

\* JSON.stringify(config) as JSON.parse reads it back: a property whose value
\* is a symbol is left out of the text
stringify(c) ==
    JsonFile({k \in ConfigKeys :
                 CASE k = "OPENAI_API_KEY"  -> c.OPENAI_API_KEY # CancelSymbol
                   [] k = "OPENAI_API_BASE" -> c.OPENAI_API_BASE # CancelSymbol
                   [] k = "model"           -> c.model # CancelSymbol
                   [] OTHER                 -> TRUE},
             c)

\* setConfigs(keyValues) run on a disk file and DEFAULT_CONFIG D: how it ends,
\* the file and DEFAULT_CONFIG it leaves
setConfigs(file, D, e, keyValues) ==
    LET r == readConfigFile(file, D, e)
        written == assignAll(r.config, keyValues)
    IN  IF r.threw
        THEN [outcome |-> "ParseError", file |-> file, D |-> r.D]
        ELSE IF ~validateKeys([i \in 1..Len(keyValues) |-> keyValues[i].key])
        THEN [outcome |-> "InvalidField", file |-> file, D |-> r.D]
        ELSE [outcome |-> "ok", file |-> stringify(written),
              D |-> IF r.alias = "whole" THEN written ELSE r.D]

(***************************************************************************)
(* The parts of the state a specification does not use stay as they start  *)
(***************************************************************************)
\* no path: the value of config.templates.default when there is no such entry
Undefined == << >>

NoResponse == [content |-> << >>, reasoning_content |-> << >>]

RunIdle ==
    /\ variant = "first"
    /\ verbose = FALSE
    /\ templateName = ""
    /\ pc = "idle"
    /\ config = BlankConfig
    /\ templateFilePath = Undefined
    /\ template = << >>
    /\ diff = << >>
    /\ rendered_template = << >>
    /\ response = NoResponse
    /\ stdout = << >>
    /\ stderr = << >>
    /\ condition = "none"
    /\ exitCode = "running"
    /\ modelCalls = 0

NormIdle ==
    /\ raw = << >>
    /\ suggestions = << >>
    /\ renormalized = << >>
    /\ npc = "idle"

UIIdle ==
    /\ uipc = "closed"
    /\ shown = 0
    /\ printed = << >>

NoEdit == [kind |-> "none", name |-> "", path |-> Undefined, templates |-> NoTemplates]

EditIdle ==
    /\ epc = "idle"
    /\ edit = NoEdit
    /\ chosenEditor = ""
    /\ exitStatus = "none"
    /\ callbacks = 0
    /\ callback = "none"
    /\ promise = "none"
    /\ flow = "none"

Setters == {1, 2}

IdleSetter ==
    [pc |-> "idle", kvs |-> << >>, config |-> BlankConfig, alias |-> "none",
     snapshot |-> BlankConfig, text |-> AbsentFile]

SettersIdle ==
    /\ shared = FALSE
    /\ defaults = [q \in Setters |-> DEFAULT_CONFIG_literal]
    /\ setters = [p \in Setters |-> IdleSetter]
    /\ lastWriter = 0

(***************************************************************************)
(* The configuration store as a state machine: one process (DEFAULT_CONFIG *)
(* lives as long as the process) working on the disk.                      *)
(***************************************************************************)
\* values an operator types into a prompt or passes in an update list
TypedValue(k) ==
    CASE k = "OPENAI_API_KEY"  -> {"sk-env"}
      [] k = "OPENAI_API_BASE" -> {"https://new"}
      [] k = "model"           -> {"m-new"}
      [] OTHER                 -> {"v"}

\* the updates an update list is drawn from
UpdateSet ==
    UNION {{Update(k, s, NoTemplates) : s \in TypedValue(k)} : k \in {"OPENAI_API_KEY", "bogus"}}
    \cup {Update("templates", "", [n \in {"x"} |-> newTemplatePath("x")])}

UpdateLists == UNION {[1..n -> UpdateSet] : n \in 1..MaxUpdates}

\* the (field, value) pairs of the scalar fields in an update list
GivenBy(kvs) == {<<kvs[i].key, kvs[i].str>> : i \in {j \in 1..Len(kvs) : kvs[j].key \in ScalarKeys}}

\* what is recorded of an operation: its name, the keys of its update list, the
\* template name and the editor run it was given
Op(name, kvs, tname, editor) ==
    [name |-> name, keys |-> [i \in 1..Len(kvs) |-> kvs[i].key],
     tname |-> tname, editor |-> editor]

\* the persisted records a behaviour starts from
InitJson ==
    { JsonFile({}, BlankConfig),
      JsonFile({"model"}, [BlankConfig EXCEPT !.model = "m-file"]),
      JsonFile({"OPENAI_API_KEY"}, [BlankConfig EXCEPT !.OPENAI_API_KEY = "sk-file", !.extra = {"legacy"}]),
      JsonFile({"OPENAI_API_KEY", "model"}, [BlankConfig EXCEPT !.OPENAI_API_KEY = "sk-file"]),
      JsonFile({"templates"}, BlankConfig),
      JsonFile({"templates"}, [BlankConfig EXCEPT !.templates = [n \in {"x"} |-> newTemplatePath("x")]]),
      JsonFile(ConfigKeys,
               [OPENAI_API_KEY |-> "sk-file", OPENAI_API_BASE |-> "https://file",
                model |-> "m-file",
                templates |-> [n \in {"default", "x"} |->
                                  IF n = "default" THEN defaultTemplatePath
                                                   ELSE newTemplatePath("x")],
                extra |-> {}]) }

InitConfigFiles == {AbsentFile, MalformedFile} \cup InitJson

\* the template files a behaviour starts from
InitFiles ==
    {fs \in UNION {[S -> {boilerplate, editedBody}] : S \in SUBSET {defaultTemplatePath, newTemplatePath("x")}} :
        defaultTemplatePath \in DOMAIN fs => fs[defaultTemplatePath] = boilerplate}

InitEnvs ==
    { [OPENAI_API_KEY |-> "", OPENAI_API_BASE |-> "", OPENAI_MODEL |-> ""],
      [OPENAI_API_KEY |-> "sk-env", OPENAI_API_BASE |-> "", OPENAI_MODEL |-> ""],
      [OPENAI_API_KEY |-> "sk-env", OPENAI_API_BASE |-> "https://env", OPENAI_MODEL |-> "m-env"] }

NoOp == Op("none", << >>, "", "")

InitStore ==
    /\ configFile \in InitConfigFiles
    /\ files \in InitFiles
    /\ env \in InitEnvs
    /\ DEFAULT_CONFIG = DEFAULT_CONFIG_literal
    /\ op = NoOp
    /\ outcome = "none"
    /\ ret = BlankConfig
    /\ given = {}
    /\ nops = 0
    /\ UIIdle

\* showConfigUI has not called itself again: while the menu flow goes on the
\* process runs nothing else
MenuIdle == uipc # "recursed"

\* const config = await readConfigFile()
Load ==
    /\ nops < MaxOps
    /\ MenuIdle
    /\ UNCHANGED <<runVars, normVars, extVars>>
    /\ nops' = nops + 1
    /\ LET r == readConfigFile(configFile, DEFAULT_CONFIG, env)
       IN  /\ DEFAULT_CONFIG' = r.D
           /\ outcome' = IF r.threw THEN "ParseError" ELSE "ok"
           /\ ret' = r.config
    /\ op' = Op("readConfigFile", << >>, "", "")
    /\ UNCHANGED <<configFile, files, env, given, uiVars>>

\* const config = await cleanUpTemplates(await readConfigFile())
Prune ==
    /\ nops < MaxOps
    /\ MenuIdle
    /\ UNCHANGED <<runVars, normVars, extVars>>
    /\ nops' = nops + 1
    /\ LET r0 == readConfigFile(configFile, DEFAULT_CONFIG, env)
           r  == IF r0.threw THEN r0 ELSE cleanUpTemplates(r0, files)
       IN  /\ DEFAULT_CONFIG' = r.D
           /\ outcome' = IF r.threw THEN "ParseError" ELSE "ok"
           /\ ret' = r.config
    /\ op' = Op("cleanUpTemplates", << >>, "", "")
    /\ UNCHANGED <<configFile, files, env, given, uiVars>>

\* await setConfigs(keyValues)
Set ==
    /\ nops < MaxOps
    /\ MenuIdle
    /\ UNCHANGED <<runVars, normVars, extVars>>
    /\ nops' = nops + 1
    /\ \E kvs \in UpdateLists :
         LET s == setConfigs(configFile, DEFAULT_CONFIG, env, kvs)
         IN  /\ configFile' = s.file
             /\ DEFAULT_CONFIG' = s.D
             /\ outcome' = s.outcome
             /\ op' = Op("setConfigs", kvs, "", "")
             /\ given' = given \cup GivenBy(kvs)
    /\ ret' = BlankConfig
    /\ UNCHANGED <<files, env, uiVars>>

\* a new process: the module is loaded again
Restart ==
    /\ nops < MaxOps
    /\ MenuIdle
    /\ UNCHANGED <<runVars, normVars, extVars>>
    /\ nops' = nops + 1
    /\ DEFAULT_CONFIG # DEFAULT_CONFIG_literal
    /\ DEFAULT_CONFIG' = DEFAULT_CONFIG_literal
    /\ op' = Op("restart", << >>, "", "")
    /\ outcome' = "none"
    /\ ret' = BlankConfig
    /\ uipc' = "closed"
    /\ shown' = 0
    /\ printed' = << >>
    /\ UNCHANGED <<configFile, files, env, given>>

(***************************************************************************)
(* config.ts: showConfigUI, one pass of the menu per action                *)
(***************************************************************************)
\* config.templates[newTemplateName] = newTemplatePath
register(templates, name, path) ==
    [n \in DOMAIN templates \cup {name} |-> IF n = name THEN path ELSE templates[n]]

\* await Bun.write(path, body)
write(fs, path, body) ==
    [q \in DOMAIN fs \cup {path} |-> IF q = path THEN body ELSE fs[q]]

\* what editFile does: "cancel" returns before spawning (no editor chosen), the
\* other two spawn the editor, which exits having saved the file or not, and
\* then run onExit
EditorRuns == {"cancel", "exit-saved", "exit-unsaved"}

\* the file as the editor leaves it
edited(fs, path, editor) ==
    IF editor = "exit-saved" THEN write(fs, path, editedBody) ELSE fs

\* showConfigUI is running: it was not called yet, or the pass before called it
\* again at line 259
MenuRuns == uipc \in {"closed", "recursed"}

\* what a pass threw, from how its setConfigs ended
thrown(result) == IF result = "ok" THEN "" ELSE result

\* the end of a pass that calls showConfigUI again without looking at the choice
endPass_noCancelCheck(error, cancelled, displayed) ==
    /\ uipc' = IF error # "" THEN "caught" ELSE "recursed"
    /\ shown' = IF displayed THEN shown + 1 ELSE shown
    /\ printed' = IF error # "" THEN Append(printed, error) ELSE printed

\* how a pass of showConfigUI ends, lines 255-263: error is what the pass threw
\* ("" when nothing), cancelled whether the choice was cancel, displayed whether
\* the pass got as far as the main menu
endPass(error, cancelled, displayed) ==
    /\ uipc' = IF error # "" THEN "caught"
               ELSE IF cancelled THEN "returned" ELSE "recursed"
    /\ shown' = IF displayed THEN shown + 1 ELSE shown
    /\ printed' = IF error # "" THEN Append(printed, error) ELSE printed

\* choice === "OPENAI_API_KEY" | "OPENAI_API_BASE" | "model": prompt, then setConfigs
UISetField ==
    /\ nops < MaxOps
    /\ MenuRuns
    /\ UNCHANGED <<runVars, normVars, extVars>>
    /\ nops' = nops + 1
    /\ \E k \in ScalarKeys : \E v \in TypedValue(k) \cup (IF k = "model" THEN {CancelSymbol} ELSE {}) :
         LET r0 == readConfigFile(configFile, DEFAULT_CONFIG, env)
             r  == cleanUpTemplates(r0, files)
             kvs == <<Update(k, v, NoTemplates)>>
             s  == setConfigs(configFile, r.D, env, kvs)
         IN  IF r0.threw
             THEN /\ outcome' = "caught"
                  /\ op' = Op("showConfigUI", << >>, "", "")
                  /\ endPass("ParseError", FALSE, FALSE)
                  /\ UNCHANGED <<configFile, DEFAULT_CONFIG, given>>
             ELSE /\ configFile' = s.file
                  /\ DEFAULT_CONFIG' = s.D
                  /\ outcome' = s.outcome
                  /\ op' = Op("showConfigUI.set", kvs, "", "")
                  /\ endPass(thrown(s.outcome), FALSE, TRUE)
                  /\ given' = given \cup GivenBy(kvs)
    /\ ret' = BlankConfig
    /\ UNCHANGED <<files, env>>

\* names an operator types for a new template
NewNames == {"", "x"}

\* templateChoice === "add_new"
UIAddNew ==
    /\ nops < MaxOps
    /\ MenuRuns
    /\ UNCHANGED <<runVars, normVars, extVars>>
    /\ nops' = nops + 1
    /\ \E name \in NewNames \cup {CancelSymbol} : \E editor \in EditorRuns :
         LET r0 == readConfigFile(configFile, DEFAULT_CONFIG, env)
             r  == cleanUpTemplates(r0, files)
             path == newTemplatePath(name)
             templates == register(r.config.templates, name, path)
             \* DEFAULT_CONFIG once config.templates[name] is assigned
             D1 == IF r.alias = "none" THEN r.D ELSE [r.D EXCEPT !.templates = templates]
             kvs == <<Update("templates", "", templates)>>
             s  == setConfigs(configFile, D1, env, kvs)
         IN  IF r0.threw
             THEN /\ outcome' = "caught"
                  /\ op' = Op("showConfigUI", << >>, "", "")
                  /\ endPass("ParseError", FALSE, FALSE)
                  /\ UNCHANGED <<configFile, files, DEFAULT_CONFIG>>
             ELSE IF name = CancelSymbol
             THEN \* the template literal throws on a symbol, before any write
                  /\ outcome' = "caught"
                  /\ op' = Op("showConfigUI.add_new", << >>, name, "")
                  /\ endPass("TypeError", FALSE, TRUE)
                  /\ DEFAULT_CONFIG' = r.D
                  /\ UNCHANGED <<configFile, files>>
             ELSE IF editor = "cancel"
             THEN /\ outcome' = "ok"
                  /\ op' = Op("showConfigUI.add_new", << >>, name, editor)
                  /\ endPass("", FALSE, TRUE)
                  /\ files' = write(files, path, boilerplate)
                  /\ DEFAULT_CONFIG' = D1
                  /\ UNCHANGED configFile
             ELSE /\ outcome' = s.outcome
                  /\ op' = Op("showConfigUI.add_new", kvs, name, editor)
                  /\ endPass(thrown(s.outcome), FALSE, TRUE)
                  /\ files' = edited(write(files, path, boilerplate), path, editor)
                  /\ configFile' = s.file
                  /\ DEFAULT_CONFIG' = s.D
    /\ ret' = BlankConfig
    /\ UNCHANGED <<env, given>>

\* templateChoice is an existing name (neither "add_new" nor "cancel")
UIEdit ==
    /\ nops < MaxOps
    /\ MenuRuns
    /\ UNCHANGED <<runVars, normVars, extVars>>
    /\ nops' = nops + 1
    /\ LET r0 == readConfigFile(configFile, DEFAULT_CONFIG, env)
           r  == cleanUpTemplates(r0, files)
       IN  /\ ~r0.threw
           /\ \E name \in DOMAIN r.config.templates : \E editor \in EditorRuns :
                LET path == r.config.templates[name]
                    fs1 == IF path \in DOMAIN files THEN files
                           ELSE write(files, path, boilerplate)
                IN  /\ files' = edited(fs1, path, editor)
                    /\ op' = Op("showConfigUI.edit", << >>, name, editor)
           /\ DEFAULT_CONFIG' = r.D
    /\ outcome' = "ok"
    /\ endPass("", FALSE, TRUE)
    /\ ret' = BlankConfig
    /\ UNCHANGED <<configFile, env, given>>

\* a pass whose choice leaves the disk alone: load, prune, the menu, the choice
idlePass(name, cancelled) ==
    /\ nops < MaxOps
    /\ MenuRuns
    /\ UNCHANGED <<runVars, normVars, extVars>>
    /\ nops' = nops + 1
    /\ LET r0 == readConfigFile(configFile, DEFAULT_CONFIG, env)
           r  == cleanUpTemplates(r0, files)
       IN  IF r0.threw
           THEN /\ outcome' = "caught"
                /\ op' = Op("showConfigUI", << >>, "", "")
                /\ endPass("ParseError", FALSE, FALSE)
                /\ UNCHANGED DEFAULT_CONFIG
           ELSE /\ outcome' = "ok"
                /\ op' = Op(name, << >>, "", "")
                /\ endPass("", cancelled, TRUE)
                /\ DEFAULT_CONFIG' = r.D
    /\ ret' = BlankConfig
    /\ UNCHANGED <<configFile, files, env, given>>

\* choice is the cancel entry, or the prompt was cancelled (p.isCancel)
UICancel == idlePass("showConfigUI.cancel", TRUE)

\* choice === "test": testConfiguration loads again and catches its own errors
UITest == idlePass("showConfigUI.test", FALSE)

\* choice === "template" and templateChoice === "cancel"
UITemplateCancel == idlePass("showConfigUI.template.cancel", FALSE)

(***************************************************************************)
(* run.ts: strings as sequences of characters                              *)
(***************************************************************************)
\* what String.prototype.trim removes and the regular expressions' \s matches
WhiteSpace == {" ", "\t", "\n", "\r", "\f"}
\* what the regular expressions' . does not match
LineTerminators == {"\n", "\r"}
Digits == {"0", "1", "2", "3", "4", "5", "6", "7", "8", "9"}
\* the character class of the quote-stripping expression: double quote, single quote, backtick
\* the backtick character (a TLA+ string cannot hold it)
Backtick == "<backtick>"
QuoteChars == {"\"", "'", Backtick}

Max(S) == CHOOSE x \in S : \A y \in S : y <= x
Min(S) == CHOOSE x \in S : \A y \in S : x <= y

\* the characters of s from position i on
From(s, i) == SubSeq(s, i, Len(s))

\* the length of the longest prefix of s whose characters are all in C
Run(s, C) ==
    IF \A i \in 1..Len(s) : s[i] \in C THEN Len(s)
    ELSE Min({i \in 1..Len(s) : s[i] \notin C}) - 1

\* the length of the longest suffix of s whose characters are all in C
RunBack(s, C) ==
    IF \A i \in 1..Len(s) : s[i] \in C THEN Len(s)
    ELSE Len(s) - Max({i \in 1..Len(s) : s[i] \notin C})

\* line.trim()
trim(s) == SubSeq(s, Run(s, WhiteSpace) + 1, Len(s) - RunBack(s, WhiteSpace))

\* s.startsWith(p)
startsWith(s, p) == Len(s) >= Len(p) /\ SubSeq(s, 1, Len(p)) = p

\* s.indexOf(p), one-based; 0 when p does not occur
indexOf(s, p) ==
    LET at == {i \in 1..(Len(s) - Len(p) + 1) : SubSeq(s, i, i + Len(p) - 1) = p}
    IN  IF at = {} THEN 0 ELSE Min(at)

RECURSIVE replaceAll(_, _, _)
\* s.replaceAll(p, r) for a replacement r without $
replaceAll(s, p, r) ==
    LET i == indexOf(s, p)
    IN  IF i = 0 THEN s
        ELSE SubSeq(s, 1, i - 1) \o r \o replaceAll(From(s, i + Len(p)), p, r)

RECURSIVE split(_, _)
\* s.split(sep): the sequence of pieces
split(s, sep) ==
    LET i == indexOf(s, sep)
    IN  IF i = 0 THEN <<s>>
        ELSE <<SubSeq(s, 1, i - 1)>> \o split(From(s, i + Len(sep)), sep)

RECURSIVE join(_, _)
\* lines.join(sep)
join(lines, sep) ==
    IF lines = << >> THEN << >>
    ELSE IF Len(lines) = 1 THEN lines[1]
    ELSE lines[1] \o sep \o join(Tail(lines), sep)

RECURSIVE filter(_, _)
\* xs.filter(keep), keep a set of the elements kept
filter(xs, keep) ==
    IF xs = << >> THEN << >>
    ELSE (IF Head(xs) \in keep THEN <<Head(xs)>> ELSE << >>) \o filter(Tail(xs), keep)

Fence == <<Backtick, Backtick, Backtick>>

(***************************************************************************)
(* run.ts: normalizeCommitSuggestions                                      *)
(***************************************************************************)
\* (.+)\s*$ against rest: the captured group, or << >> when there is no match.
\* .+ is greedy and gives characters back until \s*$ matches what is left.
matchContent(rest) ==
    LET qs == {q \in 1..Run(rest, {rest[i] : i \in 1..Len(rest)} \ LineTerminators) :
                 \A i \in (q + 1)..Len(rest) : rest[i] \in WhiteSpace}
    IN  IF qs = {} THEN << >> ELSE SubSeq(rest, 1, Max(qs))

\* \s{least,}(.+)\s*$ against s: \s is greedy and gives characters back until
\* the rest matches
matchSpaceContent(s, least) ==
    LET ks == {k \in least..Run(s, WhiteSpace) : matchContent(From(s, k + 1)) # << >>}
    IN  IF ks = {} THEN << >> ELSE matchContent(From(s, Max(ks) + 1))

\* line.match(/^(\d+)\s*[\.\)]\s*(.+)\s*$/): match[2], or << >> when null
matchNumbered(line) ==
    LET d == Run(line, Digits)
        afterDigits == From(line, d + 1)
        w == Run(afterDigits, WhiteSpace)
        afterSpace == From(afterDigits, w + 1)
    IN  IF d = 0 \/ afterSpace = << >> \/ Head(afterSpace) \notin {".", ")"}
        THEN << >>
        ELSE matchSpaceContent(Tail(afterSpace), 0)

\* line.match(/^[-*]\s+(.+)\s*$/): match[1], or << >> when null
matchBullet(line) ==
    IF line = << >> \/ Head(line) \notin {"-", "*"} THEN << >>
    ELSE matchSpaceContent(Tail(line), 1)

\* the replacement without its second alternative: only the leading run goes
stripQuotes_leadingOnly(message) == From(message, Run(message, QuoteChars) + 1)

\* message.replace(/^[quotes]+|[quotes]+$/g, empty): the leading run and the trailing run go
stripQuotes(message) ==
    LET lead == Run(message, QuoteChars)
        rest == From(message, lead + 1)
    IN  SubSeq(rest, 1, Len(rest) - RunBack(rest, QuoteChars))

\* the lines of the reply that normalizeCommitSuggestions looks at
cleanLines(reply) ==
    LET pieces == split(replaceAll(reply, <<"\r", "\n">>, <<"\n">>), <<"\n">>)
        trimmed == [i \in 1..Len(pieces) |-> trim(pieces[i])]
    IN  filter(trimmed, {trimmed[i] : i \in {j \in 1..Len(trimmed) :
                            trimmed[j] # << >> /\ ~startsWith(trimmed[j], Fence)}})

\* the captures of the lines that match
captures(lines, numbered) ==
    LET caps == [i \in 1..Len(lines) |->
                    IF numbered THEN matchNumbered(lines[i]) ELSE matchBullet(lines[i])]
    IN  filter(caps, {caps[i] : i \in 1..Len(caps)} \ {<< >>})

\* the normalizer that takes the bulleted lines along with the numbered ones
normalizeCommitSuggestions_both(reply) ==
    LET lines == cleanLines(reply)
        candidates == captures(lines, TRUE) \o captures(lines, FALSE)
        messages == [i \in 1..Len(candidates) |-> trim(stripQuotes(candidates[i]))]
    IN  filter(messages, {messages[i] : i \in 1..Len(messages)} \ {<< >>})

normalizeCommitSuggestions(reply) ==
    LET lines == cleanLines(reply)
        fromNumbered == captures(lines, TRUE)
        fromBullets == IF fromNumbered = << >> THEN captures(lines, FALSE) ELSE << >>
        candidates == IF Len(fromNumbered) > 0 THEN fromNumbered ELSE fromBullets
        messages == [i \in 1..Len(candidates) |-> trim(stripQuotes(candidates[i]))]
    IN  filter(messages, {messages[i] : i \in 1..Len(messages)} \ {<< >>})

RECURSIVE decimal(_)
\* `${n}` for a number n >= 0
decimal(n) ==
    LET digit == <<"0", "1", "2", "3", "4", "5", "6", "7", "8", "9">>[(n % 10) + 1]
    IN  IF n < 10 THEN <<digit>> ELSE decimal(n \div 10) \o <<digit>>

\* suggestions.map((s, idx) => `${idx + 1}. ${s}`).join("\n")
formatSuggestions(list) ==
    join([i \in 1..Len(list) |-> decimal(i) \o <<".", " ">> \o list[i]], <<"\n">>)

Next ==
    \/ Load
    \/ Prune
    \/ Set
    \/ Restart
    \/ UISetField
    \/ UIAddNew
    \/ UIEdit
    \/ UICancel
    \/ UITest
    \/ UITemplateCancel

Init == InitStore /\ RunIdle /\ NormIdle /\ EditIdle /\ SettersIdle

Spec == Init /\ [][Next]_vars

(***************************************************************************)
(* run.ts: template.replace("{{diff}}", diff)                              *)
(***************************************************************************)
Placeholder == <<"{", "{", "d", "i", "f", "f", "}", "}">>

RECURSIVE getSubstitution(_, _, _, _)
\* what String.prototype.replace inserts for the replacement text r when the
\* pattern is a string (no capture groups): $$ is $, $& the matched text,
\* $ with a backtick the text before the match, $' the text after it; any
\* other $ stands for itself
getSubstitution(matched, before, after, r) ==
    IF r = << >> THEN << >>
    ELSE IF Head(r) # "$" \/ Len(r) = 1
    THEN <<Head(r)>> \o getSubstitution(matched, before, after, Tail(r))
    ELSE LET rest == From(r, 3)
         IN  CASE r[2] = "$"      -> <<"$">> \o getSubstitution(matched, before, after, rest)
               [] r[2] = "&"      -> matched \o getSubstitution(matched, before, after, rest)
               [] r[2] = Backtick -> before \o getSubstitution(matched, before, after, rest)
               [] r[2] = "'"      -> after \o getSubstitution(matched, before, after, rest)
               [] OTHER           -> <<"$">> \o getSubstitution(matched, before, after, Tail(r))

\* s.replace(pattern, replacement) for a string pattern: the first occurrence only
replace(s, pattern, replacement) ==
    LET i == indexOf(s, pattern)
        before == SubSeq(s, 1, i - 1)
        after == From(s, i + Len(pattern))
    IN  IF i = 0 THEN s
        ELSE before \o getSubstitution(pattern, before, after, replacement) \o after

(***************************************************************************)
(* run.ts: run(options, templateName), both functions of the file          *)
(***************************************************************************)
\* a write of a fixed message and a write of computed text
Diag(msg) == [kind |-> "diag", msg |-> msg, text |-> << >>]
Text(t)   == [kind |-> "text", msg |-> "", text |-> t]

\* the stream a verbose message goes to: console.error in the first run
\* function, console.debug (which writes to the primary stream) in the second
debugStdout(so, msgs) ==
    IF verbose /\ variant = "second"
    THEN so \o [i \in 1..Len(msgs) |-> Diag(msgs[i])] ELSE so
debugStderr(se, msgs) ==
    IF verbose /\ variant = "first" THEN se \o msgs ELSE se

\* console.error(msg); process.exit(1)
Fatal(msg, cond) ==
    /\ stderr' = Append(stderr, msg)
    /\ condition' = cond
    /\ exitCode' = "1"
    /\ pc' = "exited"

\* an exception leaves run: the promise rejects
Throw(cond) ==
    /\ condition' = cond
    /\ exitCode' = "threw"
    /\ pc' = "exited"

\* the checks of lines 98-106 without the check of the model
credentialCheck_keyOnly(c) ==
    IF c.OPENAI_API_KEY = "" THEN "MissingCredential" ELSE "none"

\* the checks of lines 98-106: the condition they end the run with, or "none"
credentialCheck(c) ==
    IF c.OPENAI_API_KEY = "" THEN "MissingCredential"
    ELSE IF c.model = "" THEN "MissingModel"
    ELSE "none"

\* const config = await readConfigFile()
RunLoad ==
    /\ pc = "start"
    /\ LET r == readConfigFile(configFile, DEFAULT_CONFIG, env)
       IN  /\ DEFAULT_CONFIG' = r.D
           /\ IF r.threw
              THEN /\ Throw("ParseError")
                   /\ UNCHANGED <<config, stdout, stderr>>
              ELSE /\ config' = r.config
                   /\ pc' = "configLoaded"
                   /\ stdout' = debugStdout(stdout, <<"Configuration loaded successfully.">>)
                   /\ stderr' = debugStderr(stderr, <<"Configuration loaded successfully.">>)
                   /\ UNCHANGED <<condition, exitCode>>
    /\ UNCHANGED <<configFile, files, env, op, outcome, ret, given, nops, normVars, uiVars, extVars,
                   variant, verbose, templateName, templateFilePath, template, diff,
                   rendered_template, response, modelCalls>>

\* lines 58-75: the template path from the name
RunResolve ==
    /\ pc = "configLoaded"
    /\ IF templateName # "" /\ templateName \notin DOMAIN config.templates
       THEN /\ Fatal("Error: Template does not exist in the configuration.", "UnknownTemplate")
            /\ UNCHANGED <<templateFilePath, stdout>>
       ELSE /\ templateFilePath' =
                 IF templateName # "" THEN config.templates[templateName]
                 ELSE IF "default" \in DOMAIN config.templates
                      THEN config.templates["default"] ELSE Undefined
            /\ pc' = "templateResolved"
            /\ stdout' = debugStdout(stdout, <<"Using template">>)
            /\ stderr' = debugStderr(stderr, <<"Using template">>)
            /\ UNCHANGED <<condition, exitCode>>
    /\ UNCHANGED <<cfgVars, normVars, uiVars, extVars, variant, verbose, templateName, config, template, diff,
                   rendered_template, response, modelCalls>>

\* the template stage that writes the boilerplate body to a missing file
\* instead of ending the run
RunTemplateFile_ensuresExists ==
    /\ pc = "templateResolved"
    /\ templateFilePath # Undefined
    /\ files' = IF templateFilePath \in DOMAIN files THEN files
                ELSE write(files, templateFilePath, boilerplate)
    /\ template' = files'[templateFilePath]
    /\ pc' = "templateRead"
    /\ UNCHANGED <<configFile, env, DEFAULT_CONFIG, op, outcome, ret, given, nops, normVars,
                   uiVars, extVars, variant, verbose, templateName, config, templateFilePath,
                   diff, rendered_template, response, stdout, stderr, condition, exitCode,
                   modelCalls>>

\* lines 77-91: the template file must exist, and is read.  Bun.file(undefined)
\* either throws or names no file.
RunTemplateFile ==
    /\ pc = "templateResolved"
    /\ \/ /\ templateFilePath = Undefined
          /\ Throw("TypeError")
          /\ UNCHANGED <<template, stdout, stderr>>
       \/ /\ templateFilePath \notin DOMAIN files
          /\ Fatal("Error: The template file does not exist.", "TemplateFileMissing")
          /\ UNCHANGED <<template, stdout>>
       \/ /\ templateFilePath \in DOMAIN files
          /\ template' = files[templateFilePath]
          /\ pc' = "templateRead"
          /\ stdout' = debugStdout(stdout, <<"Template file found", "Template file read successfully.">>)
          /\ stderr' = debugStderr(stderr, <<"Template file found", "Template file read successfully.">>)
          /\ UNCHANGED <<condition, exitCode>>
    /\ UNCHANGED <<cfgVars, normVars, uiVars, extVars, variant, verbose, templateName, config, templateFilePath,
                   diff, rendered_template, response, modelCalls>>

\* lines 93-106: the working directory, then the api key and the model
RunCredentials ==
    /\ pc = "templateRead"
    /\ LET cond == credentialCheck(config)
           so == debugStdout(stdout, <<"Target directory">>)
           se == debugStderr(stderr, <<"Target directory">>)
       IN  IF cond # "none"
           THEN /\ stdout' = so
                /\ stderr' = Append(se, IF cond = "MissingCredential"
                                        THEN "OPENAI_API_KEY is not set" ELSE "Model is not set")
                /\ condition' = cond
                /\ exitCode' = "1"
                /\ pc' = "exited"
           ELSE /\ stdout' = so
                /\ stderr' = se
                /\ pc' = "credentialsChecked"
                /\ UNCHANGED <<condition, exitCode>>
    /\ UNCHANGED <<cfgVars, normVars, uiVars, extVars, variant, verbose, templateName, config, templateFilePath,
                   template, diff, rendered_template, response, modelCalls>>

\* the staged diffs the collaborator returns
Diffs == { << >>, <<" ", "\n">>, <<"+", "a">> }

\* the check of line 113 without the trim: only the empty diff counts
blank_emptyOnly(d) == d = << >>

\* whether diff.trim().length === 0
blank(d) == trim(d) = << >>

\* lines 108-116: getStagedDiff, which logs and rethrows a failure
RunDiff ==
    /\ pc = "credentialsChecked"
    /\ \/ /\ stderr' = Append(stderr, "Error getting git diff:")
          /\ Throw("DiffRetrievalError")
          /\ UNCHANGED <<diff, stdout>>
       \/ \E d \in Diffs :
            /\ diff' = d
            /\ stdout' = debugStdout(stdout, <<"Git diff retrieved:">>)
            /\ IF blank(d)
               THEN /\ stderr' = Append(debugStderr(stderr, <<"Git diff retrieved:">>),
                                        "No changes to commit")
                    /\ condition' = "NoChanges"
                    /\ exitCode' = "1"
                    /\ pc' = "exited"
               ELSE /\ stderr' = debugStderr(stderr, <<"Git diff retrieved:">>)
                    /\ pc' = "diffFetched"
                    /\ UNCHANGED <<condition, exitCode>>
    /\ UNCHANGED <<cfgVars, normVars, uiVars, extVars, variant, verbose, templateName, config, templateFilePath,
                   template, rendered_template, response, modelCalls>>

\* line 118, and the progress line of the second run function
RunRender ==
    /\ pc = "diffFetched"
    /\ rendered_template' = replace(template, Placeholder, diff)
    /\ stdout' = debugStdout(stdout, <<"Template rendered with git diff.">>)
    /\ stderr' = IF variant = "second" /\ ~verbose
                 THEN Append(stderr, "Generating commit messages...")
                 ELSE debugStderr(stderr, <<"Template rendered with git diff.">>)
    /\ pc' = "rendered"
    /\ UNCHANGED <<cfgVars, normVars, uiVars, extVars, variant, verbose, templateName, config, templateFilePath,
                   template, diff, response, condition, exitCode, modelCalls>>

\* the replies of the model collaborator
Contents ==
    { << >>,
      <<" ">>,
      <<"o", "k">>,
      <<"1", ".", " ", "a", "\n", "2", ".", " ", "\"", "b", "\"">> }
Reasonings == { << >>, <<"1", ".", " ", "r">> }

\* lines 128-150: the call; a failure is caught at lines 170-173
RunInvoke ==
    /\ pc = "rendered"
    /\ modelCalls' = modelCalls + 1
    /\ \/ /\ stdout' = debugStdout(stdout, <<"Sending request to OpenAI...">>)
          /\ stderr' = Append(debugStderr(stderr, <<"Sending request to OpenAI...">>),
                              "Failed to fetch from openai")
          /\ condition' = "ModelInvocationError"
          /\ exitCode' = "1"
          /\ pc' = "exited"
          /\ UNCHANGED response
       \/ \E c \in Contents, rc \in Reasonings :
            /\ response' = [content |-> c, reasoning_content |-> rc]
            /\ stdout' = debugStdout(stdout, <<"Sending request to OpenAI...",
                                               "Response received from OpenAI.", "JSON.stringify(response)">>)
            /\ stderr' = debugStderr(stderr, <<"Sending request to OpenAI...",
                                               "Response received from OpenAI.", "JSON.stringify(response)">>)
            /\ pc' = "invoked"
            /\ UNCHANGED <<condition, exitCode>>
    /\ UNCHANGED <<cfgVars, normVars, uiVars, extVars, variant, verbose, templateName, config, templateFilePath,
                   template, diff, rendered_template>>

\* lines 152-169 of the first run function: normalize, number, write
emitFirst ==
    LET content == response.content
        list == normalizeCommitSuggestions(content)
    IN  IF content = << >>
        THEN Fatal("Failed to generate commit message", "EmptyModelReply") /\ UNCHANGED stdout
        ELSE IF Len(list) = 0
        THEN Fatal("Failed to parse commit messages from model output.", "UnparsableReply")
             /\ UNCHANGED stdout
        ELSE /\ stdout' = Append(stdout, Text(formatSuggestions(list)))
             /\ condition' = "ok"
             /\ exitCode' = "0"
             /\ pc' = "exited"
             /\ UNCHANGED stderr

\* lines 302-317 of the second run function: the reply as it came, trimmed
emitSecond ==
    LET content == IF response.content # << >> THEN response.content
                   ELSE response.reasoning_content
    IN  IF content = << >>
        THEN Fatal("Failed to generate commit message", "EmptyModelReply") /\ UNCHANGED stdout
        ELSE /\ stdout' = debugStdout(Append(stdout, Text(trim(content) \o <<"\n">>)),
                                      <<"Commit message generated and outputted.">>)
             /\ stderr' = IF verbose THEN stderr ELSE Append(stderr, "Done!")
             /\ condition' = "ok"
             /\ exitCode' = "0"
             /\ pc' = "exited"

RunEmit ==
    /\ pc = "invoked"
    /\ IF variant = "first" THEN emitFirst ELSE emitSecond
    /\ UNCHANGED <<cfgVars, normVars, uiVars, extVars, variant, verbose, templateName, config, templateFilePath,
                   template, diff, rendered_template, response, modelCalls>>

\* the template names a run is started with: none, a registered one, an unknown one
TemplateNames == {"", "x", "zz"}

InitRun ==
    /\ configFile \in InitConfigFiles
    /\ files \in InitFiles
    /\ env \in InitEnvs
    /\ DEFAULT_CONFIG = DEFAULT_CONFIG_literal
    /\ op = NoOp /\ outcome = "none" /\ ret = BlankConfig /\ given = {} /\ nops = 0
    /\ variant \in {"first", "second"}
    /\ verbose \in BOOLEAN
    /\ templateName \in TemplateNames
    /\ pc = "start"
    /\ config = BlankConfig
    /\ templateFilePath = Undefined
    /\ template = << >>
    /\ diff = << >>
    /\ rendered_template = << >>
    /\ response = NoResponse
    /\ stdout = << >>
    /\ stderr = << >>
    /\ condition = "none"
    /\ exitCode = "running"
    /\ modelCalls = 0
    /\ NormIdle
    /\ UIIdle /\ EditIdle /\ SettersIdle

NextRun ==
    \/ RunLoad
    \/ RunResolve
    \/ RunTemplateFile
    \/ RunCredentials
    \/ RunDiff
    \/ RunRender
    \/ RunInvoke
    \/ RunEmit

SpecRun == InitRun /\ [][NextRun]_vars

(***************************************************************************)
(* The rendering step alone, over template bodies and diffs                *)
(***************************************************************************)
MaxTemplatePieces == 3   \* pieces a template body is put together from
MaxDiffPieces == 2       \* pieces a diff is put together from

RECURSIVE flatten(_)
\* the concatenation of a sequence of strings
flatten(pieces) ==
    IF pieces = << >> THEN << >> ELSE Head(pieces) \o flatten(Tail(pieces))

\* the strings put together from at least least and at most most pieces
Pieced(pieces, least, most) ==
    {flatten(ps) : ps \in UNION {[1..n -> pieces] : n \in least..most}}

TemplateBodies == Pieced({<<"a">>, <<"b">>, Placeholder}, 0, MaxTemplatePieces)

RenderDiffs ==
    Pieced({<<"+">>, <<"$">>, <<"&">>, <<"'">>, <<Backtick>>, <<"1">>, Placeholder},
           1, MaxDiffPieces)

InitRender ==
    /\ configFile = AbsentFile
    /\ files = [q \in {defaultTemplatePath} |-> boilerplate]
    /\ env = [OPENAI_API_KEY |-> "sk-env", OPENAI_API_BASE |-> "", OPENAI_MODEL |-> ""]
    /\ DEFAULT_CONFIG = DEFAULT_CONFIG_literal
    /\ op = NoOp /\ outcome = "none" /\ ret = BlankConfig /\ given = {} /\ nops = 0
    /\ variant \in {"first", "second"}
    /\ verbose = FALSE
    /\ templateName = ""
    /\ pc = "diffFetched"
    /\ config = EnvOverride(DEFAULT_CONFIG_literal, env)
    /\ templateFilePath = defaultTemplatePath
    /\ template \in TemplateBodies
    /\ diff \in RenderDiffs
    /\ rendered_template = << >>
    /\ response = NoResponse
    /\ stdout = << >>
    /\ stderr = << >>
    /\ condition = "none"
    /\ exitCode = "running"
    /\ modelCalls = 0
    /\ NormIdle
    /\ UIIdle /\ EditIdle /\ SettersIdle

NextRender ==
    \/ RunRender

SpecRender == InitRender /\ [][NextRender]_vars

(***************************************************************************)
(* The normalizer alone, applied to a reply and then to its own output     *)
(***************************************************************************)
MaxTokens == 5   \* pieces a reply is put together from

ReplyTokens ==
    { <<"1", ".", " ">>, <<"2", "3", ".", " ">>, <<"-", " ">>, <<"\n">>, <<"\r", "\n">>,
      <<"a">>, <<"\"">>, <<" ">> }

RawReplies == Pieced(ReplyTokens, 0, MaxTokens)

InitNorm ==
    /\ configFile = AbsentFile
    /\ files = [q \in {} |-> boilerplate]
    /\ env = [OPENAI_API_KEY |-> "", OPENAI_API_BASE |-> "", OPENAI_MODEL |-> ""]
    /\ DEFAULT_CONFIG = DEFAULT_CONFIG_literal
    /\ op = NoOp /\ outcome = "none" /\ ret = BlankConfig /\ given = {} /\ nops = 0
    /\ RunIdle
    /\ raw \in RawReplies
    /\ suggestions = << >>
    /\ renormalized = << >>
    /\ npc = "reply"
    /\ UIIdle /\ EditIdle /\ SettersIdle

\* const suggestions = normalizeCommitSuggestions(content)
Normalize ==
    /\ npc = "reply"
    /\ suggestions' = normalizeCommitSuggestions(raw)
    /\ npc' = "normalized"
    /\ UNCHANGED <<cfgVars, runVars, uiVars, extVars, raw, renormalized>>

\* the numbered list written for suggestions, normalized again
Renormalize ==
    /\ npc = "normalized"
    /\ renormalized' = normalizeCommitSuggestions(formatSuggestions(suggestions))
    /\ npc' = "renormalized"
    /\ UNCHANGED <<cfgVars, runVars, uiVars, extVars, raw, suggestions>>

NextNorm ==
    \/ Normalize
    \/ Renormalize

SpecNorm == InitNorm /\ [][NextNorm]_vars

\* replies that mix numbered and bulleted lines
MarkerTokens ==
    { <<"1", ".", " ">>, <<"2", ")">>, <<"-", " ">>, <<"*", " ">>, <<"\n">>,
      <<"a">>, <<"\"">> }

MarkedReplies == Pieced(MarkerTokens, 0, MaxTokens)

InitMarked ==
    /\ configFile = AbsentFile
    /\ files = [q \in {} |-> boilerplate]
    /\ env = [OPENAI_API_KEY |-> "", OPENAI_API_BASE |-> "", OPENAI_MODEL |-> ""]
    /\ DEFAULT_CONFIG = DEFAULT_CONFIG_literal
    /\ op = NoOp /\ outcome = "none" /\ ret = BlankConfig /\ given = {} /\ nops = 0
    /\ RunIdle
    /\ raw \in MarkedReplies
    /\ suggestions = << >>
    /\ renormalized = << >>
    /\ npc = "reply"
    /\ UIIdle /\ EditIdle /\ SettersIdle

SpecMarked == InitMarked /\ [][NextNorm]_vars

(***************************************************************************)
(* config.ts: the template branch of showConfigUI and editFile, step by    *)
(* step                                                                    *)
(***************************************************************************)
\* what process.env.EDITOR || (await p.select(...)) evaluates to
EditorChoices == {"vim", "nano", "code", "cancel", CancelSymbol}

\* how the child process ends: with a code, or killed by a signal
ExitStatuses == {"0", "1", "signal"}

\* lines 145 and 210-245: load, prune, the menu, the template menu, and the
\* branch up to its call of editFile
EditStart ==
    /\ epc = "idle"
    /\ LET r0 == readConfigFile(configFile, DEFAULT_CONFIG, env)
           r  == cleanUpTemplates(r0, files)
       IN  /\ ~r0.threw
           /\ \/ \E name \in NewNames :
                   LET path == newTemplatePath(name)
                       templates == register(r.config.templates, name, path)
                   IN  /\ files' = write(files, path, boilerplate)
                       /\ DEFAULT_CONFIG' = IF r.alias = "none" THEN r.D
                                            ELSE [r.D EXCEPT !.templates = templates]
                       /\ edit' = [kind |-> "add_new", name |-> name, path |-> path,
                                   templates |-> templates]
              \/ \E name \in DOMAIN r.config.templates :
                   LET path == r.config.templates[name]
                   IN  /\ files' = IF path \in DOMAIN files THEN files
                                   ELSE write(files, path, boilerplate)
                       /\ DEFAULT_CONFIG' = r.D
                       /\ edit' = [kind |-> "edit", name |-> name, path |-> path,
                                   templates |-> r.config.templates]
    /\ epc' = "editFile"
    /\ flow' = "awaiting"
    /\ UNCHANGED <<configFile, env, op, outcome, ret, given, nops, runVars, normVars, uiVars,
                   setVars, chosenEditor, exitStatus, callbacks, callback, promise>>

\* lines 9-41: the editor; without one editFile returns, with one it spawns
\* the child and awaits the promise
EditChoose ==
    /\ epc = "editFile"
    /\ \E e \in EditorChoices :
         /\ chosenEditor' = e
         /\ IF e \in {"cancel", CancelSymbol}
            THEN epc' = "settled" /\ UNCHANGED promise
            ELSE epc' = "running" /\ promise' = "pending"
    /\ UNCHANGED <<cfgVars, runVars, normVars, uiVars, setVars, edit, exitStatus, callbacks,
                   callback, flow>>

\* the operator saves the file from the editor
EditorSaves ==
    /\ epc = "running"
    /\ files[edit.path] # editedBody
    /\ files' = write(files, edit.path, editedBody)
    /\ UNCHANGED <<configFile, env, DEFAULT_CONFIG, op, outcome, ret, given, nops, runVars,
                   normVars, uiVars, extVars>>

\* while the editor is open another program leaves the file at configPath
\* with text that is not JSON
ConfigFileDamaged ==
    /\ epc = "running"
    /\ configFile.kind # "malformed"
    /\ configFile' = MalformedFile
    /\ UNCHANGED <<files, env, DEFAULT_CONFIG, op, outcome, ret, given, nops, runVars,
                   normVars, uiVars, extVars>>

\* the listener that calls onExit on a zero exit code only
EditorExit_zeroOnly ==
    /\ epc = "running"
    /\ \E st \in ExitStatuses :
         /\ exitStatus' = st
         /\ IF st = "0"
            THEN /\ callbacks' = callbacks + 1
                 /\ callback' = "running"
                 /\ epc' = "callback"
                 /\ UNCHANGED promise
            ELSE /\ promise' = "resolved"
                 /\ epc' = "settled"
                 /\ UNCHANGED <<callbacks, callback>>
    /\ UNCHANGED <<cfgVars, runVars, normVars, uiVars, setVars, edit, chosenEditor, flow>>

\* line 45: the child emits "exit" and the listener calls onExit
EditorExit ==
    /\ epc = "running"
    /\ \E st \in ExitStatuses : exitStatus' = st
    /\ callbacks' = callbacks + 1
    /\ callback' = "running"
    /\ epc' = "callback"
    /\ UNCHANGED <<cfgVars, runVars, normVars, uiVars, setVars, edit, chosenEditor, promise,
                   flow>>

\* lines 46-50 around onExit: lines 236-239 of the add_new branch (setConfigs
\* of the templates map), lines 247-249 of the other (a message)
CallbackRuns ==
    /\ epc = "callback"
    /\ IF edit.kind = "add_new"
       THEN LET s == setConfigs(configFile, DEFAULT_CONFIG, env,
                                <<Update("templates", "", edit.templates)>>)
            IN  /\ configFile' = s.file
                /\ DEFAULT_CONFIG' = s.D
                /\ outcome' = s.outcome
                /\ callback' = IF s.outcome = "ok" THEN "returned" ELSE "threw"
                /\ promise' = IF s.outcome = "ok" THEN "resolved" ELSE "rejected"
       ELSE /\ callback' = "returned"
            /\ promise' = "resolved"
            /\ UNCHANGED <<configFile, DEFAULT_CONFIG, outcome>>
    /\ epc' = "settled"
    /\ UNCHANGED <<files, env, op, ret, given, nops, runVars, normVars, uiVars, setVars, edit,
                   chosenEditor, exitStatus, callbacks, flow>>

\* the await of editFile at line 236 or 247 ends: showConfigUI goes on to
\* line 259, or to its catch at line 261 with what editFile threw
EditResume ==
    /\ epc = "settled"
    /\ flow' = IF promise = "rejected" THEN "caught" ELSE "continued"
    /\ epc' = "done"
    /\ UNCHANGED <<cfgVars, runVars, normVars, uiVars, setVars, edit, chosenEditor, exitStatus,
                   callbacks, callback, promise>>

NextEdit ==
    \/ EditStart
    \/ EditChoose
    \/ EditorSaves
    \/ ConfigFileDamaged
    \/ EditorExit
    \/ CallbackRuns
    \/ EditResume

SpecEdit == Init /\ [][NextEdit]_vars

(***************************************************************************)
(* config.ts: two calls of setConfigs in flight at once                    *)
(***************************************************************************)
\* the process a call runs in
proc(p) == IF shared THEN 1 ELSE p

\* the update lists the calls are given
SetterLists == {<<u>> : u \in UpdateSet}

\* the object the const config of call p refers to: DEFAULT_CONFIG itself when
\* readConfigFile returned it
held(p) == IF setters[p].alias = "whole" THEN defaults[proc(p)] ELSE setters[p].config

InitSetters ==
    /\ configFile \in InitConfigFiles
    /\ files = [q \in {defaultTemplatePath} |-> boilerplate]
    /\ env \in InitEnvs
    /\ DEFAULT_CONFIG = DEFAULT_CONFIG_literal
    /\ op = NoOp /\ outcome = "none" /\ ret = BlankConfig /\ given = {} /\ nops = 0
    /\ RunIdle /\ NormIdle /\ UIIdle /\ EditIdle
    /\ shared \in BOOLEAN
    /\ defaults = [q \in Setters |-> DEFAULT_CONFIG_literal]
    /\ setters = [p \in Setters |-> [IdleSetter EXCEPT !.pc = "start"]]
    /\ lastWriter = 0

\* line 131: const config = await readConfigFile()
SetLoad(p) ==
    /\ setters[p].pc = "start"
    /\ \E kvs \in SetterLists :
         LET r == readConfigFile(configFile, defaults[proc(p)], env)
         IN  IF r.threw
             THEN /\ setters' = [setters EXCEPT ![p].pc = "failed", ![p].kvs = kvs]
                  /\ UNCHANGED defaults
             ELSE /\ setters' = [setters EXCEPT ![p] =
                                    [pc |-> "loaded", kvs |-> kvs, config |-> r.config,
                                     alias |-> r.alias, snapshot |-> r.config,
                                     text |-> AbsentFile]]
                  /\ defaults' = [defaults EXCEPT ![proc(p)] = r.D]
    /\ UNCHANGED <<cfgVars, runVars, normVars, uiVars, editVars, shared, lastWriter>>

\* lines 133-140, up to the call of Bun.write: the keys are validated, the
\* updates assigned, and the text to write is made from the object held
SetApply(p) ==
    /\ setters[p].pc = "loaded"
    /\ LET kvs == setters[p].kvs
           written == assignAll(held(p), kvs)
       IN  IF ~validateKeys([i \in 1..Len(kvs) |-> kvs[i].key])
           THEN /\ setters' = [setters EXCEPT ![p].pc = "failed"]
                /\ UNCHANGED defaults
           ELSE /\ setters' = [setters EXCEPT ![p].pc = "writing", ![p].config = written,
                                              ![p].text = stringify(written)]
                /\ defaults' = IF setters[p].alias = "whole"
                               THEN [defaults EXCEPT ![proc(p)] = written] ELSE defaults
    /\ UNCHANGED <<cfgVars, runVars, normVars, uiVars, editVars, shared, lastWriter>>

\* line 140: Bun.write puts the text at configPath
SetWrite(p) ==
    /\ setters[p].pc = "writing"
    /\ configFile' = setters[p].text
    /\ setters' = [setters EXCEPT ![p].pc = "done"]
    /\ lastWriter' = p
    /\ UNCHANGED <<files, env, DEFAULT_CONFIG, op, outcome, ret, given, nops, runVars, normVars,
                   uiVars, editVars, shared, defaults>>

NextSetters ==
    \/ \E p \in Setters : SetLoad(p)
    \/ \E p \in Setters : SetApply(p)
    \/ \E p \in Setters : SetWrite(p)

SpecSetters == InitSetters /\ [][NextSetters]_vars

(***************************************************************************)
(* Text as the properties speak of it                                      *)
(***************************************************************************)
RECURSIVE DropLeading(_, _)
\* s without its leading characters of class C
DropLeading(s, C) ==
    IF s # << >> /\ Head(s) \in C THEN DropLeading(Tail(s), C) ELSE s

RECURSIVE DropTrailing(_, _)
\* s without its trailing characters of class C
DropTrailing(s, C) ==
    IF s # << >> /\ s[Len(s)] \in C THEN DropTrailing(SubSeq(s, 1, Len(s) - 1), C) ELSE s

Blanks == {" ", "\t", "\n", "\r", "\f"}
Quotes == {"\"", "'", Backtick}

Trimmed(s) == DropTrailing(DropLeading(s, Blanks), Blanks)

\* a message as a candidate: trimmed, its wrapping quote characters stripped
Cleaned(m) == Trimmed(DropTrailing(DropLeading(Trimmed(m), Quotes), Quotes))

(***************************************************************************)
(* Properties of the configuration store (specification Spec)              *)
(***************************************************************************)
\* the value process.env holds for a scalar field of Config
envValue(k) ==
    CASE k = "OPENAI_API_KEY"  -> env.OPENAI_API_KEY
      [] k = "OPENAI_API_BASE" -> env.OPENAI_API_BASE
      [] k = "model"           -> env.OPENAI_MODEL

\* the value the persisted record holds for a scalar field of Config
persistedValue(k) ==
    CASE k = "OPENAI_API_KEY"  -> configFile.vals.OPENAI_API_KEY
      [] k = "OPENAI_API_BASE" -> configFile.vals.OPENAI_API_BASE
      [] k = "model"           -> configFile.vals.model

\* C1: the persisted record holds the environment's value for apiKey, apiBase
\* or model only if an update list gave that value for that field; loading
\* and updates of other fields never write an environment value back.
C1_EnvNeverWrittenBack ==
    \A k \in ScalarKeys :
        (/\ configFile.kind = "json"
         /\ k \in configFile.keys
         /\ envValue(k) # ""
         /\ persistedValue(k) = envValue(k))
        => <<k, envValue(k)>> \in given

\* the operations that end by writing the persisted record
Writers == {"setConfigs", "showConfigUI.set", "showConfigUI.add_new"}

\* C2: every Config returned by load or by pruning, and every record written
\* by set, has the key "default" in its templates map.
C2_DefaultTemplateAlways ==
    /\ (op.name \in {"readConfigFile", "cleanUpTemplates"} /\ outcome = "ok")
          => "default" \in DOMAIN ret.templates
    /\ (op.name \in Writers /\ op.keys # << >> /\ outcome = "ok")
          => "default" \in DOMAIN configFile.vals.templates

\* an update list with a field name outside the four known fields
HasUnknownKey(keys) == \E i \in 1..Len(keys) : keys[i] \notin ConfigKeys

\* a step that is a call of setConfigs with such a list
RejectedSetStep ==
    /\ nops' = nops + 1
    /\ op'.name = "setConfigs"
    /\ HasUnknownKey(op'.keys)

\* C9 as stated: set with an unknown field name fails with the invalid-field
\* error and the persisted record is left exactly as it was.
C9_InvalidFieldNoWrite ==
    [][RejectedSetStep => (outcome' = "InvalidField" /\ configFile' = configFile)]_vars

\* C9 as amended: set with an unknown field name fails and the persisted record
\* is left exactly as it was; the failure is the invalid-field error when the
\* persisted record is absent or parses, and the parse error of the load when
\* the record is malformed.
C9_RejectedSetNoWrite ==
    [][RejectedSetStep =>
          /\ configFile' = configFile
          /\ outcome' = IF configFile.kind = "malformed" THEN "ParseError"
                        ELSE "InvalidField"]_vars

\* C9's case: a valid update followed by an unknown field was rejected
C9_Witness ==
    /\ op.name = "setConfigs"
    /\ Len(op.keys) = 2
    /\ op.keys[1] \in ConfigKeys
    /\ op.keys[2] \notin ConfigKeys
    /\ outcome = "InvalidField"
    /\ configFile.kind = "json"

\* the templates map the menu holds after loading and pruning
menuTemplates ==
    cleanUpTemplates(readConfigFile(configFile, DEFAULT_CONFIG, env), files).config.templates

\* a step that creates a template under an empty name or under a name whose
\* path is the path of an entry already registered
DuplicateCreateStep ==
    /\ nops' = nops + 1
    /\ op'.name = "showConfigUI.add_new"
    /\ \/ op'.tname = ""
       \/ \E n \in DOMAIN menuTemplates : menuTemplates[n] = newTemplatePath(op'.tname)

\* C10: creating a template with an empty name, or with a name whose path is
\* that of a registered entry, fails with the duplicate-or-invalid-name error
\* and leaves the template files and the templates map as they were.
C10_DuplicateNameRejected ==
    [][DuplicateCreateStep =>
          /\ outcome' = "DuplicateOrInvalidNameError"
          /\ files' = files
          /\ configFile' = configFile]_vars

\* a field as load is to return it: the environment's value when that is set
\* and non-empty, else the persisted value when the record has the field, else
\* the built-in default
merged(field, fromEnv, persisted, builtin) ==
    IF fromEnv # "" THEN fromEnv
    ELSE IF configFile.kind = "json" /\ field \in configFile.keys THEN persisted
    ELSE builtin

\* C12: what load returns is, field by field, the persisted value when the
\* record has the field and the built-in default otherwise (all defaults when
\* there is no record), with apiKey, apiBase and model replaced by their
\* environment variables when those are set and non-empty.
C12_LoadMergesDefaults ==
    (op.name = "readConfigFile" /\ outcome = "ok")
    => /\ ret.OPENAI_API_KEY = merged("OPENAI_API_KEY", env.OPENAI_API_KEY,
                                      configFile.vals.OPENAI_API_KEY, "")
       /\ ret.OPENAI_API_BASE = merged("OPENAI_API_BASE", env.OPENAI_API_BASE,
                                       configFile.vals.OPENAI_API_BASE,
                                       "https://api.openai.com/v1")
       /\ ret.model = merged("model", env.OPENAI_MODEL, configFile.vals.model,
                             "gpt-4-0125-preview")
       /\ ret.templates = merged("templates", "", configFile.vals.templates,
                                 [n \in {"default"} |-> defaultTemplatePath])

\* a step that is one pass of showConfigUI
PassStep ==
    /\ nops' = nops + 1
    /\ op'.name \in {"showConfigUI", "showConfigUI.set", "showConfigUI.add_new",
                     "showConfigUI.edit", "showConfigUI.cancel", "showConfigUI.test",
                     "showConfigUI.template.cancel"}

PruneStep ==
    /\ nops' = nops + 1
    /\ op'.name = "cleanUpTemplates"
    /\ outcome' = "ok"

\* C17: the configuration pruning returns has in its templates map exactly the
\* entries of its input whose file exists, each with its path, and the input's
\* other fields; pruning deletes no file and does not write the persisted
\* record.
C17_PruneKeepsExisting ==
    [][PruneStep =>
          LET input == readConfigFile(configFile, DEFAULT_CONFIG, env).config
          IN  /\ DOMAIN ret'.templates =
                    {n \in DOMAIN input.templates : input.templates[n] \in DOMAIN files}
              /\ \A n \in DOMAIN ret'.templates : ret'.templates[n] = input.templates[n]
              /\ ret'.OPENAI_API_KEY = input.OPENAI_API_KEY
              /\ ret'.OPENAI_API_BASE = input.OPENAI_API_BASE
              /\ ret'.model = input.model
              /\ ret'.extra = input.extra
              /\ files' = files
              /\ configFile' = configFile]_vars

\* C17's case: of the two registered templates the one whose file is missing
\* was removed and the other kept
C17_Witness ==
    /\ op.name = "cleanUpTemplates"
    /\ outcome = "ok"
    /\ configFile.kind = "json"
    /\ DOMAIN configFile.vals.templates = {"default", "x"}
    /\ newTemplatePath("x") \notin DOMAIN files
    /\ DOMAIN ret.templates = {"default"}
    /\ ret.templates["default"] = defaultTemplatePath

\* a step that is a call of load, pruneMissingTemplates or set
StoreStep ==
    /\ nops' = nops + 1
    /\ op'.name \in {"readConfigFile", "cleanUpTemplates", "setConfigs"}

\* no environment overrides
NoOverrides == [OPENAI_API_KEY |-> "", OPENAI_API_BASE |-> "", OPENAI_MODEL |-> ""]

\* what a load with no persisted file and no environment overrides returns in
\* a process whose defaults object holds D
plainLoad(D) == readConfigFile(AbsentFile, D, NoOverrides).config

\* C20: no call of load, pruneMissingTemplates or set changes the built-in
\* default configuration: a load with no persisted file and no environment
\* overrides returns after the call what it returns before it, the "default"
\* template entry included.
C20_DefaultsUnchanged ==
    [][StoreStep =>
          /\ plainLoad(DEFAULT_CONFIG') = plainLoad(DEFAULT_CONFIG)
          /\ "default" \in DOMAIN plainLoad(DEFAULT_CONFIG).templates
                => "default" \in DOMAIN plainLoad(DEFAULT_CONFIG').templates]_vars

(***************************************************************************)
(* Properties of a run (specification SpecRun)                             *)
(***************************************************************************)
\* the run ended after loading a configuration whose api key or model is empty
EndedWithoutCredentials ==
    /\ pc = "exited"
    /\ condition # "ParseError"
    /\ (config.OPENAI_API_KEY = "" \/ config.model = "")

\* C3 as stated: credentials are checked before the template is resolved, so
\* every run whose merged configuration has an empty api key or model ends
\* with the missing-credential or missing-model condition.
C3_CredentialsCheckedFirst ==
    EndedWithoutCredentials => condition \in {"MissingCredential", "MissingModel"}

\* C3 as amended: the template is resolved and its file checked before the
\* credentials.  A run whose merged configuration has an empty api key or
\* model never fetches the diff nor calls the model; it ends with the
\* missing-credential condition (empty key) or the missing-model condition
\* (key set, empty model) when the template resolved to a file that exists,
\* and otherwise with the failure of the template stage.
C3_TemplateCheckedFirst ==
    EndedWithoutCredentials =>
        /\ modelCalls = 0
        /\ diff = << >>
        /\ IF templateFilePath \in DOMAIN files
           THEN condition = (IF config.OPENAI_API_KEY = "" THEN "MissingCredential"
                             ELSE "MissingModel")
           ELSE condition \in {"UnknownTemplate", "TemplateFileMissing", "TypeError"}

\* C3's case: a run with a key but an empty model got past the template stage
\* and ended on the model check
C3_Witness ==
    /\ pc = "exited"
    /\ templateFilePath \in DOMAIN files
    /\ config.OPENAI_API_KEY # ""
    /\ config.model = ""
    /\ condition = "MissingModel"

\* the text of the model's reply: content, or the reasoning field when content is empty
replyText ==
    IF response.content # << >> THEN response.content ELSE response.reasoning_content

\* C4: a successful run writes to the primary stream exactly the lines
\* "i. message_i" of its candidates joined by newlines, and no run ever writes
\* a progress or diagnostic message to the primary stream.
C4_PrimaryStreamOnlyList ==
    /\ \A i \in 1..Len(stdout) : stdout[i].kind # "diag"
    /\ (pc = "exited" /\ exitCode = "0")
          => stdout = <<Text(formatSuggestions(normalizeCommitSuggestions(replyText)))>>

\* C5: when the reply has text from which no candidate is extracted, the run
\* exits non-zero with the unparsable-reply condition and has written nothing
\* to the primary stream.
C5_UnparsableReplyFails ==
    (/\ pc = "exited"
     /\ modelCalls = 1
     /\ condition # "ModelInvocationError"
     /\ replyText # << >>
     /\ normalizeCommitSuggestions(replyText) = << >>)
    => (exitCode = "1" /\ condition = "UnparsableReply" /\ stdout = << >>)

\* the step in which the run gets the staged diff from the collaborator
DiffStep ==
    /\ pc = "credentialsChecked"
    /\ pc' # pc
    /\ condition' # "DiffRetrievalError"

\* C13: when the staged diff is empty or whitespace only, the run exits
\* non-zero with the no-changes diagnostic on the diagnostic stream and has
\* written nothing to the primary stream.
C13_EmptyDiffFails ==
    [][(DiffStep /\ \A i \in 1..Len(diff') : diff'[i] \in Blanks)
       => /\ pc' = "exited"
          /\ exitCode' = "1"
          /\ stderr' # << >>
          /\ stderr'[Len(stderr')] = "No changes to commit"
          /\ stdout' = << >>]_vars

\* C14: no step of a run changes the persisted configuration record or any
\* template file, and a run whose resolved template path has no file ends
\* there with the template-file-missing condition.
C14_RunLeavesDiskAlone ==
    [][/\ configFile' = configFile
       /\ files' = files
       /\ (/\ pc = "templateResolved"
           /\ templateFilePath # Undefined
           /\ templateFilePath \notin DOMAIN files)
          => (pc' = "exited" /\ exitCode' = "1" /\ condition' = "TemplateFileMissing")]_vars

\* C14's case: the run asked for template x, whose file is missing, and ended
\* there without creating it
C14_Witness ==
    /\ pc = "exited"
    /\ condition = "TemplateFileMissing"
    /\ templateName = "x"
    /\ templateFilePath = newTemplatePath("x")
    /\ templateFilePath \notin DOMAIN files

\* a stage of run is carried out
RunStep == pc' # pc

\* C19: in every run the model collaborator is invoked at most once, and only
\* after the api key and the model were found non-empty, the template file was
\* found to exist and the staged diff was found non-blank; after any fatal
\* condition no later stage runs.
C19_ModelOnceAfterChecks ==
    [][/\ RunStep => (condition = "none" /\ exitCode = "running")
       /\ modelCalls' <= 1
       /\ (modelCalls' # modelCalls) =>
             /\ modelCalls = 0
             /\ config.OPENAI_API_KEY # ""
             /\ config.model # ""
             /\ templateFilePath \in DOMAIN files
             /\ template = files[templateFilePath]
             /\ Trimmed(diff) # << >>]_vars

\* the model was invoked, the call failed, and the run ended there
C19_Witness ==
    /\ pc = "exited"
    /\ modelCalls = 1
    /\ condition = "ModelInvocationError"
    /\ exitCode = "1"

(***************************************************************************)
(* Properties of the rendering step (specification SpecRender)             *)
(***************************************************************************)
\* C6: for a template that contains the placeholder, the rendered prompt is the
\* template with its first placeholder replaced by the diff, character for
\* character; nothing in the diff is interpreted.
C6_DiffInsertedVerbatim ==
    (pc = "rendered" /\ indexOf(template, Placeholder) # 0)
    => LET i == indexOf(template, Placeholder)
       IN  rendered_template =
              SubSeq(template, 1, i - 1) \o diff \o From(template, i + Len(Placeholder))

(***************************************************************************)
(* Properties of the normalizer (specification SpecNorm)                   *)
(***************************************************************************)
\* C7: normalizing the re-numbered list of the messages a reply normalizes to
\* gives the same messages in the same order.
C7_RenumberIdempotent ==
    npc = "renormalized" => renormalized = suggestions

\* the lines of a reply, split at newlines
Lines(reply) == split(reply, <<"\n">>)

\* the number of digits a line starts with
DigitsAt(line) == Len(line) - Len(DropLeading(line, Digits))

\* a line "N. message" whose message has some text
IsNumberedLine(line) ==
    LET d == DigitsAt(line)
    IN  /\ d >= 1
        /\ Len(line) >= d + 3
        /\ line[d + 1] = "."
        /\ line[d + 2] = " "
        /\ Trimmed(From(line, d + 3)) # << >>

\* the message of such a line
MessageOf(line) == From(line, DigitsAt(line) + 3)

\* a reply that consists solely of lines "N. message"
NumberedOnly(reply) == \A i \in 1..Len(Lines(reply)) : IsNumberedLine(Lines(reply)[i])

\* the cleaned messages of such a reply, line by line
CleanedMessages(reply) ==
    [i \in 1..Len(Lines(reply)) |-> Cleaned(MessageOf(Lines(reply)[i]))]

\* C8 as stated: from a reply that consists solely of lines "N. message" the
\* normalizer returns exactly the messages, in order, cleaned, none dropped.
C8_NumberedRecoveredAll ==
    (npc # "reply" /\ NumberedOnly(raw)) => suggestions = CleanedMessages(raw)

\* C8 as amended: from a reply that consists solely of lines "N. message" in
\* which every message keeps some text once its wrapping quote characters are
\* stripped, the normalizer returns exactly the cleaned messages, in order; a
\* message made of quote characters only is dropped.
C8_NumberedRecovered ==
    (npc # "reply" /\ NumberedOnly(raw))
    => suggestions = filter(CleanedMessages(raw),
                            {CleanedMessages(raw)[i] : i \in 1..Len(Lines(raw))} \ {<< >>})

\* C8's case: two numbered lines with the same message were both returned
C8_Witness ==
    /\ npc = "normalized"
    /\ NumberedOnly(raw)
    /\ Len(Lines(raw)) = 2
    /\ suggestions = <<<<"a">>, <<"a">>>>

(***************************************************************************)
(* Properties of the template-editing workflow (specification SpecEdit)    *)
(***************************************************************************)
\* editFile spawned the editor process
Spawned == promise # "none"

\* C11: once the editor process has been spawned, onExit has run exactly once
\* as soon as the editor has exited, whatever its exit status, and not before;
\* showConfigUI has not gone on past editFile unless the callback has
\* finished; and when the callback threw, showConfigUI received the failure.
C11_CallbackOnceAfterExit ==
    /\ callbacks = (IF exitStatus = "none" THEN 0 ELSE 1)
    /\ (Spawned /\ flow \in {"continued", "caught"}) => callback \in {"returned", "threw"}
    /\ (epc = "done" /\ callback = "threw") => (flow = "caught" /\ promise = "rejected")
    /\ (epc = "done" /\ callback = "returned") => flow = "continued"

\* C11's case: the editor exited non-zero, the callback ran once and threw, and
\* the failure reached showConfigUI
C11_Witness ==
    /\ epc = "done"
    /\ exitStatus = "1"
    /\ callbacks = 1
    /\ callback = "threw"
    /\ flow = "caught"

(***************************************************************************)
(* Properties of the normalizer on mixed replies (specification SpecMarked) *)
(***************************************************************************)
\* the lines the normalizer is to read: the lines of the reply, trimmed,
\* without the blank ones and those that begin with a code fence
ReadLines(reply) ==
    LET ts == [i \in 1..Len(Lines(reply)) |-> Trimmed(Lines(reply)[i])]
    IN  filter(ts, {ts[i] : i \in {j \in 1..Len(ts) :
                      /\ ts[j] # << >>
                      /\ ~(Len(ts[j]) >= 3 /\ \A k \in 1..3 : ts[j][k] = Backtick)}})

\* the content of a line that matches the numbered pattern (digits, then a dot
\* or a closing parenthesis, blanks allowed around it, then the content);
\* << >> for a line that does not match
NumberedContent(line) ==
    LET afterDigits == DropLeading(From(line, DigitsAt(line) + 1), Blanks)
    IN  IF DigitsAt(line) = 0 \/ afterDigits = << >> \/ Head(afterDigits) \notin {".", ")"}
        THEN << >>
        ELSE DropLeading(Tail(afterDigits), Blanks)

\* the content of a bulleted line (a dash or a star, a blank, then the
\* content); << >> for a line that is not one
BulletContent(line) ==
    IF Len(line) < 2 \/ line[1] \notin {"-", "*"} \/ line[2] \notin Blanks
    THEN << >>
    ELSE DropLeading(Tail(line), Blanks)

\* a list without its empty strings
NonEmpty(list) == filter(list, {list[i] : i \in 1..Len(list)} \ {<< >>})

\* the bulleted contents of the lines
Bulleted(ls) == NonEmpty([i \in 1..Len(ls) |-> BulletContent(ls[i])])

\* the candidates made of the numbered contents when there are any, and of the
\* bulleted contents otherwise
Candidates(numbered, bulleted) ==
    LET chosen == IF numbered # << >> THEN numbered ELSE bulleted
    IN  NonEmpty([i \in 1..Len(chosen) |-> Cleaned(chosen[i])])

BothCompleted ==
    /\ \A p \in Setters : setters[p].pc \in {"done", "failed"}
    /\ lastWriter # 0

\* the record call p computes: what its readConfigFile returned, with its own
\* updates assigned
ownRecord(p) == stringify(assignAll(setters[p].snapshot, setters[p].kvs))

\* C18: when two set() operations interleave, the persisted record after both
\* have completed is the complete record computed by the one whose write
\* happened last (its own loaded snapshot plus its own updates), never a
\* mixture of the two writers' records.
C18_LastWriterWins ==
    BothCompleted => configFile = ownRecord(lastWriter)

\* the same, for two calls that run in two processes
C18_SeparateProcesses ==
    (BothCompleted /\ ~shared) => configFile = ownRecord(lastWriter)
====
